---- MODULE Spec2Model ----
(***************************************************************************)
(* Model of the redline engine of the legal-research assistant:            *)
(*   RedlineEditor    (components/RedlineEditor.tsx, src/unnamed/part_000) *)
(*   RedlineInterface (components/RedlineInterface.tsx,                    *)
(*                     src/unnamed/part_001, second component)             *)
(*                                                                         *)
(* A text is the sequence of the tokens that the word diff splits it into. *)
(* "w" stands for a token that is not white space, " " for a run of        *)
(* blanks and "\n" for a line break.                                       *)
(*                                                                         *)
(* Diff.diffWords comes from the package "diff" (^5.0.0). It is modelled   *)
(* by what version 5 does: two tokens are equal when they are identical or *)
(* both white space, the result is a shortest edit script grouped into     *)
(* runs of one kind (removed before added), an unchanged run carries the   *)
(* tokens of the NEW text, and a last run that is added or removed white   *)
(* space is merged into the run before it. The library is deterministic,   *)
(* so the result is chosen once per (original, revised) pair and every     *)
(* call site reads the same.                                               *)
(*                                                                         *)
(* The Westlaw OAuth flow is modelled next to it:                          *)
(*   lib/westlaw-oauth.ts            (src/unnamed/part_008)                *)
(*   app/api/westlaw/callback        (src/unnamed/part_005)                *)
(*   app/api/westlaw/oauth/authorize (its route.ts)                        *)
(*   lib/user-settings.ts            (src/unnamed/part_009)                *)
(* Spec is the redline editor with its parent, SpecCalls the editor with   *)
(* its two decision handlers called on any id, SpecWestlaw the OAuth       *)
(* routes.                                                                 *)
(***************************************************************************)
EXTENDS Integers, Sequences, FiniteSets, TLC

\* ------------------------------------------------------------------ bounds
MaxOriginalLen == 2
MaxRevisedLen == 2
MaxSegs == 3
MaxIssued == 2
MaxCallbacks == 2
MaxNow == 3

\* ------------------------------------------------------------------- texts
Whitespace == {" ", "\n"}

Words == {"w"} \cup Whitespace

\* a run of blanks is one token, so two " " tokens are never neighbours
TextsUpTo(n) ==
    {t \in UNION {[1..k -> Words] : k \in 0..n} :
        \A k \in DOMAIN t : k > 1 => ~(t[k] = " " /\ t[k - 1] = " ")}

OriginalTexts == TextsUpTo(MaxOriginalLen)

RevisedTexts == TextsUpTo(MaxRevisedLen)

RECURSIVE countNewlines(_)
countNewlines(value) ==
    IF value = <<>> THEN 0
    ELSE (IF Head(value) = "\n" THEN 1 ELSE 0) + countNewlines(Tail(value))

isWhitespace(text) == \A k \in DOMAIN text : text[k] \in Whitespace

\* String.prototype.trim() leaves something iff the text has a word in it
\* as trimIsEmpty, but white space is not trimmed
trimIsEmptyLengthOnly(text) == text = <<>>

trimIsEmpty(text) == isWhitespace(text)

RECURSIVE join(_)
join(pieces) ==
    IF pieces = <<>> THEN <<>> ELSE Head(pieces) \o join(Tail(pieces))

\* ------------------------------------------------------------ Diff.diffWords
tokenEquals(left, right) ==
    left = right \/ (left \in Whitespace /\ right \in Whitespace)

RECURSIVE lcs(_, _)
lcs(a, b) ==
    IF a = <<>> \/ b = <<>> THEN 0
    ELSE IF tokenEquals(Head(a), Head(b)) THEN 1 + lcs(Tail(a), Tail(b))
    ELSE LET x == lcs(Tail(a), b)
             y == lcs(a, Tail(b))
         IN  IF x >= y THEN x ELSE y

pushComponent(components, kind, token) ==
    IF components # <<>> /\ components[Len(components)].kind = kind
    THEN [components EXCEPT ![Len(components)].value = @ \o <<token>>]
    ELSE Append(components, [kind |-> kind, value |-> <<token>>])

\* the components of one edit script; an unchanged token is taken from the new text
RECURSIVE buildValues(_, _, _, _)
buildValues(ops, old, new, components) ==
    IF ops = <<>>
    THEN [ok |-> old = <<>> /\ new = <<>>, components |-> components]
    ELSE IF Head(ops) = "equal"
    THEN IF old # <<>> /\ new # <<>> /\ tokenEquals(Head(old), Head(new))
         THEN buildValues(Tail(ops), Tail(old), Tail(new),
                          pushComponent(components, "equal", Head(new)))
         ELSE [ok |-> FALSE, components |-> <<>>]
    ELSE IF Head(ops) = "removed"
    THEN IF old # <<>>
         THEN buildValues(Tail(ops), Tail(old), new,
                          pushComponent(components, "removed", Head(old)))
         ELSE [ok |-> FALSE, components |-> <<>>]
    ELSE IF new # <<>>
         THEN buildValues(Tail(ops), old, Tail(new),
                          pushComponent(components, "added", Head(new)))
         ELSE [ok |-> FALSE, components |-> <<>>]

\* as mergeTerminal, but the merged last run is left in the result, emptied
mergeTerminalEmptied(components) ==
    LET n == Len(components)
    IN  IF /\ n > 1
           /\ components[n].kind \in {"added", "removed"}
           /\ isWhitespace(components[n].value)
        THEN [k \in 1..n |->
                 IF k = n - 1
                 THEN [components[k] EXCEPT !.value = @ \o components[n].value]
                 ELSE IF k = n THEN [components[k] EXCEPT !.value = <<>>]
                 ELSE components[k]]
        ELSE components

\* "when one terminal is ignored (i.e. whitespace) [...] we merge the terminal
\* into the prior string and drop the change"
mergeTerminal(components) ==
    LET n == Len(components)
    IN  IF /\ n > 1
           /\ components[n].kind \in {"added", "removed"}
           /\ isWhitespace(components[n].value)
        THEN [k \in 1..(n - 1) |->
                 IF k = n - 1
                 THEN [components[k] EXCEPT !.value = @ \o components[n].value]
                 ELSE components[k]]
        ELSE components

\* the shortest edit scripts, "removes are output first"
editScripts(old, new) ==
    LET n == Len(old) + Len(new) - lcs(old, new)
    IN  {ops \in [1..n -> {"equal", "removed", "added"}] :
            \A k \in 1..(n - 1) : ~(ops[k] = "added" /\ ops[k + 1] = "removed")}

\* the results that a shortest edit script of (original, revised) can give
diffWords(original, revised) ==
    LET built == {buildValues(ops, original, revised, <<>>) :
                     ops \in editScripts(original, revised)}
        merged == {mergeTerminal(b.components) : b \in {x \in built : x.ok}}
    IN  {d \in merged : Len(d) <= MaxSegs}

\* ------------------------------------------------------------------- state
VARIABLES
    originalText,   \* RedlineInterface: useState('')
    revisedText,    \* RedlineInterface: useState('')
    showEditor,     \* RedlineInterface: useState(false); RedlineEditor is mounted iff TRUE
    isLoading,      \* RedlineInterface: useState(false)
    error,          \* RedlineInterface: useState('')
    fetching,       \* a POST /api/redline is awaited by handleGenerateRedline
    reading,        \* a readFileContent(file) is awaited by handleFileUpload
    diff,           \* RedlineEditor: Diff.diffWords(originalText, revisedText) of its props
    changes,        \* RedlineEditor: useState<Change[]>([])
    finalText,      \* RedlineEditor: useState(revisedText)
    effectPending,  \* RedlineEditor: the useEffect on [originalText, revisedText] is due
    exported,       \* the calls of onExportFinal made by the last step
    lastOp,         \* the handler that ran in the last step
    configured,     \* westlaw-oauth: CLIENT_ID and CLIENT_SECRET are set
    now,            \* Date.now(), in units of five minutes
    stateStore,     \* westlaw-oauth: stateStore, state -> [userId, timestamp]
    issuedAt,       \* every state that generateAuthorizationUrl returned, with its time
    requests,       \* the GET requests of the callback route, each with its position
    returned,       \* per state, the calls of exchangeCodeForToken that returned a token
    oauthTokens     \* user-settings: the oauthToken saved for each user

redlineVars == <<originalText, revisedText, showEditor, isLoading, error, fetching, reading,
                 diff, changes, finalText, effectPending, exported, lastOp>>

oauthVars == <<configured, now, stateStore, issuedAt, requests, returned, oauthTokens>>

vars == <<redlineVars, oauthVars>>

parentVars == <<originalText, revisedText, showEditor, isLoading, error, fetching, reading>>

\* -------------------------------------------------- RedlineEditor: changes
changeId(index) == index

\* the index of diff.forEach is 0-based, the sequence is 1-based
RECURSIVE generateChangesFrom(_, _, _, _)
generateChangesFrom(d, index, lineNumber, changesList) ==
    IF index >= Len(d) THEN changesList
    ELSE LET part == d[index + 1]
             pushed ==
                 IF part.kind = "added"
                 THEN Append(changesList,
                             [id |-> changeId(index), type |-> "addition",
                              original |-> <<>>, revised |-> part.value,
                              lineNumber |-> lineNumber,
                              accepted |-> "undefined", rejected |-> "undefined"])
                 ELSE IF part.kind = "removed"
                 THEN Append(changesList,
                             [id |-> changeId(index), type |-> "deletion",
                              original |-> part.value, revised |-> <<>>,
                              lineNumber |-> lineNumber,
                              accepted |-> "undefined", rejected |-> "undefined"])
                 ELSE changesList
         IN  generateChangesFrom(d, index + 1,
                                 lineNumber + countNewlines(part.value), pushed)

\* as generateChanges, but a removed part that is followed by an added part
\* becomes one modification and the added part is skipped
RECURSIVE generateChangesPairedFrom(_, _, _, _)
generateChangesPairedFrom(d, index, lineNumber, changesList) ==
    IF index >= Len(d) THEN changesList
    ELSE LET part == d[index + 1]
             paired == /\ part.kind = "removed"
                       /\ index + 1 < Len(d)
                       /\ d[index + 2].kind = "added"
         IN  IF paired
             THEN generateChangesPairedFrom(d, index + 2,
                      lineNumber + countNewlines(part.value)
                                 + countNewlines(d[index + 2].value),
                      Append(changesList,
                             [id |-> changeId(index), type |-> "modification",
                              original |-> part.value, revised |-> d[index + 2].value,
                              lineNumber |-> lineNumber,
                              accepted |-> "undefined", rejected |-> "undefined"]))
             ELSE generateChangesPairedFrom(d, index + 1,
                      lineNumber + countNewlines(part.value),
                      generateChangesFrom(<<part>>, 0, lineNumber, changesList))

generateChangesPaired(d) == generateChangesPairedFrom(d, 0, 1, <<>>)

\* as generateChangesFrom, but only the line breaks of unchanged parts count
RECURSIVE generateChangesEqualLinesFrom(_, _, _, _)
generateChangesEqualLinesFrom(d, index, lineNumber, changesList) ==
    IF index >= Len(d) THEN changesList
    ELSE LET part == d[index + 1]
         IN  generateChangesEqualLinesFrom(d, index + 1,
                 IF part.kind = "equal"
                 THEN lineNumber + countNewlines(part.value) ELSE lineNumber,
                 generateChangesFrom(<<part>>, 0, lineNumber, changesList))

\* the ids of generateChangesFrom(<<part>>, 0, ..) are 0: put the index back
generateChangesEqualLines(d) ==
    LET cs == generateChangesEqualLinesFrom(d, 0, 1, <<>>)
        real == generateChangesFrom(d, 0, 1, <<>>)
    IN  [k \in DOMAIN cs |-> [cs[k] EXCEPT !.id = real[k].id]]

\* as generateChanges, but the id is the number of Changes pushed so far
generateChangesCountedIds(d) ==
    LET cs == generateChangesFrom(d, 0, 1, <<>>)
    IN  [k \in DOMAIN cs |-> [cs[k] EXCEPT !.id = changeId(k - 1)]]

generateChanges(d) == generateChangesFrom(d, 0, 1, <<>>)

\* as acceptChange, but an id that matches no Change adds an accepted Change
acceptChangeUpsert(prev, id) ==
    IF \E k \in DOMAIN prev : prev[k].id = id
    THEN [k \in DOMAIN prev |->
             IF prev[k].id = id
             THEN [prev[k] EXCEPT !.accepted = "true", !.rejected = "false"]
             ELSE prev[k]]
    ELSE Append(prev, [id |-> id, type |-> "addition", original |-> <<>>,
                       revised |-> <<>>, lineNumber |-> 1,
                       accepted |-> "true", rejected |-> "false"])

\* as acceptChange, but the rejected flag is left as it is
acceptChangeKeepsRejected(prev, id) ==
    [k \in DOMAIN prev |->
        IF prev[k].id = id THEN [prev[k] EXCEPT !.accepted = "true"] ELSE prev[k]]

\* as acceptChange, but accepting an accepted Change takes the decision back
acceptChangeToggles(prev, id) ==
    [k \in DOMAIN prev |->
        IF prev[k].id = id
        THEN IF prev[k].accepted = "true"
             THEN [prev[k] EXCEPT !.accepted = "false", !.rejected = "false"]
             ELSE [prev[k] EXCEPT !.accepted = "true", !.rejected = "false"]
        ELSE prev[k]]

\* as acceptChange, but the Change with the next id is accepted as well
acceptChangeAndNext(prev, id) ==
    [k \in DOMAIN prev |->
        IF prev[k].id = id \/ prev[k].id = id + 1
        THEN [prev[k] EXCEPT !.accepted = "true", !.rejected = "false"]
        ELSE prev[k]]

acceptChange(prev, id) ==
    [k \in DOMAIN prev |->
        IF prev[k].id = id
        THEN [prev[k] EXCEPT !.accepted = "true", !.rejected = "false"]
        ELSE prev[k]]

\* as rejectChange, but the rejected Change is taken out of the list
rejectChangeRemoves(prev, id) == SelectSeq(prev, LAMBDA change : change.id # id)

rejectChange(prev, id) ==
    [k \in DOMAIN prev |->
        IF prev[k].id = id
        THEN [prev[k] EXCEPT !.rejected = "true", !.accepted = "false"]
        ELSE prev[k]]

\* as acceptAll, but the rejected flag is left as it is
acceptAllKeepsRejected(prev) ==
    [k \in DOMAIN prev |-> [prev[k] EXCEPT !.accepted = "true"]]

acceptAll(prev) ==
    [k \in DOMAIN prev |-> [prev[k] EXCEPT !.accepted = "true", !.rejected = "false"]]

\* as rejectAll, but a Change that is accepted is left as it is
rejectAllSkipsAccepted(prev) ==
    [k \in DOMAIN prev |->
        IF prev[k].accepted = "true" THEN prev[k]
        ELSE [prev[k] EXCEPT !.rejected = "true", !.accepted = "false"]]

rejectAll(prev) ==
    [k \in DOMAIN prev |-> [prev[k] EXCEPT !.rejected = "true", !.accepted = "false"]]

\* changes.find(c => c.id === id): the first match, or undefined
undefinedChange == [id |-> -1, accepted |-> "undefined", rejected |-> "undefined"]

find(cs, id) ==
    IF \E k \in DOMAIN cs : cs[k].id = id
    THEN LET k == CHOOSE j \in DOMAIN cs :
                      cs[j].id = id /\ \A i \in DOMAIN cs : cs[i].id = id => j <= i
         IN  [id |-> cs[k].id, accepted |-> cs[k].accepted, rejected |-> cs[k].rejected]
    ELSE undefinedChange

\* change?.accepted, change?.rejected in a condition
truthy(flag) == flag = "true"

\* --------------------------------------------------- RedlineEditor: render
\* One element per <span> pushed by renderRedlineText. controls is "none",
\* "single" (the buttons call acceptChange/rejectChange on the element's own
\* id) or "pair" (the buttons call them on the id and on the next id).
RECURSIVE renderFrom(_, _, _, _)
renderFrom(d, cs, index, elements) ==
    IF index >= Len(d) THEN elements
    ELSE
    LET part == d[index + 1]
        nextAdded == index + 1 < Len(d) /\ d[index + 2].kind = "added"
        prevRemoved == index >= 1 /\ d[index].kind = "removed"
        change == find(cs, changeId(index))
        nextChange == find(cs, changeId(index + 1))
        isReplacement == part.kind = "removed" /\ nextAdded
        isAccepted == truthy(change.accepted)
        isRejected == truthy(change.rejected)
    IN
    IF part.kind = "added" THEN
        IF prevRemoved \/ isRejected
        THEN renderFrom(d, cs, index + 1, elements)
        ELSE renderFrom(d, cs, index + 1, Append(elements,
                 [key |-> index, kind |-> "addition",
                  original |-> <<>>, revised |-> part.value,
                  originalStyle |-> "none",
                  revisedStyle |-> IF isAccepted THEN "accepted" ELSE "underline",
                  controls |-> IF ~isAccepted THEN "single" ELSE "none"]))
    ELSE IF part.kind = "removed" THEN
        IF isAccepted
        THEN renderFrom(d, cs, index + 1, elements)
        ELSE IF isReplacement
        THEN LET allAccepted == isAccepted /\ truthy(nextChange.accepted)
                 allRejected == isRejected /\ truthy(nextChange.rejected)
             IN  renderFrom(d, cs, index + 2, Append(elements,
                     [key |-> index, kind |-> "replacement",
                      original |-> part.value, revised |-> d[index + 2].value,
                      originalStyle |-> IF isRejected THEN "rejected" ELSE "strike",
                      revisedStyle |-> IF truthy(nextChange.accepted)
                                       THEN "accepted" ELSE "underline",
                      controls |-> IF ~allAccepted /\ ~allRejected
                                   THEN "pair" ELSE "none"]))
        ELSE renderFrom(d, cs, index + 1, Append(elements,
                 [key |-> index, kind |-> "deletion",
                  original |-> part.value, revised |-> <<>>,
                  originalStyle |-> IF isRejected THEN "rejected" ELSE "strike",
                  revisedStyle |-> "none",
                  controls |-> IF ~isRejected THEN "single" ELSE "none"]))
    ELSE renderFrom(d, cs, index + 1, Append(elements,
             [key |-> index, kind |-> "equal",
              original |-> part.value, revised |-> part.value,
              originalStyle |-> "none", revisedStyle |-> "none",
              controls |-> "none"]))

\* as renderRedlineText, but an added part that follows a removed part is
\* rendered like any other added part, after the Replacement
renderRedlineTextInsertHalfToo(d, cs) ==
    LET elements == renderFrom(d, cs, 0, <<>>)
        ofPart(index) ==
            LET own == SelectSeq(elements, LAMBDA element : element.key = index)
                change == find(cs, changeId(index))
            IN  IF /\ d[index + 1].kind = "added"
                   /\ index >= 1
                   /\ d[index].kind = "removed"
                   /\ ~truthy(change.rejected)
                THEN <<[key |-> index, kind |-> "addition",
                        original |-> <<>>, revised |-> d[index + 1].value,
                        originalStyle |-> "none",
                        revisedStyle |-> IF truthy(change.accepted)
                                         THEN "accepted" ELSE "underline",
                        controls |-> IF ~truthy(change.accepted)
                                     THEN "single" ELSE "none"]>>
                ELSE own
    IN  join([k \in DOMAIN d |-> ofPart(k - 1)])

\* as renderRedlineText, but the buttons of a deletion are always there
renderRedlineTextDeletionButtons(d, cs) ==
    LET elements == renderFrom(d, cs, 0, <<>>)
    IN  [e \in DOMAIN elements |->
            IF elements[e].kind = "deletion"
            THEN [elements[e] EXCEPT !.controls = "single"]
            ELSE elements[e]]

renderRedlineText(d, cs) == renderFrom(d, cs, 0, <<>>)

\* ---------------------------------------------------- RedlineEditor: stats
getChangeStats(cs) ==
    [additions |-> Cardinality({k \in DOMAIN cs : cs[k].type = "addition"}),
     deletions |-> Cardinality({k \in DOMAIN cs : cs[k].type = "deletion"}),
     accepted |-> Cardinality({k \in DOMAIN cs : truthy(cs[k].accepted)}),
     rejected |-> Cardinality({k \in DOMAIN cs : truthy(cs[k].rejected)}),
     pending |-> Cardinality({k \in DOMAIN cs :
                     ~truthy(cs[k].accepted) /\ ~truthy(cs[k].rejected)})]

\* ------------------------------------------------- RedlineEditor: exports
\* as exportFinalResult, but a removed part is kept only when rejected
exportFinalDropsPending(d, cs) ==
    join([k \in DOMAIN d |->
        LET part == d[k]
            change == find(cs, changeId(k - 1))
        IN  IF part.kind = "added"
            THEN IF truthy(change.rejected) THEN <<>> ELSE part.value
            ELSE IF part.kind = "removed"
            THEN IF truthy(change.rejected) THEN part.value ELSE <<>>
            ELSE part.value])

\* the string that exportFinalDocument hands to onExportFinal
exportFinalResult(d, cs) ==
    join([k \in DOMAIN d |->
        LET part == d[k]
            change == find(cs, changeId(k - 1))
        IN  IF part.kind = "added"
            THEN IF truthy(change.rejected) THEN <<>> ELSE part.value
            ELSE IF part.kind = "removed"
            THEN IF truthy(change.accepted) THEN <<>> ELSE part.value
            ELSE part.value])

\* as exportCurrentResult, but a pending removed part is kept
exportCurrentKeepsPending(d, cs) ==
    join([k \in DOMAIN d |->
        LET part == d[k]
            change == find(cs, changeId(k - 1))
        IN  IF part.kind = "added"
            THEN IF truthy(change.rejected) THEN <<>> ELSE part.value
            ELSE IF part.kind = "removed"
            THEN IF truthy(change.accepted) THEN <<>> ELSE part.value
            ELSE part.value])

\* the string that exportCurrentVersion hands to onExportFinal
exportCurrentResult(d, cs) ==
    join([k \in DOMAIN d |->
        LET part == d[k]
            change == find(cs, changeId(k - 1))
        IN  IF part.kind = "added"
            THEN IF truthy(change.rejected) THEN <<>> ELSE part.value
            ELSE IF part.kind = "removed"
            THEN IF truthy(change.accepted) THEN <<>>
                 ELSE IF truthy(change.rejected) THEN part.value
                 ELSE <<>>
            ELSE part.value])

\* ---------------------------------------------------------- westlaw-oauth
\* ten minutes, in units of five minutes
maxAge == 2

Users == {"user1", "user2"}

StateIds == 1..MaxIssued

\* a state parameter that generateAuthorizationUrl never returns; the states
\* of a request are this one and those returned so far
forgedState == 0

RequestIds == 1..MaxCallbacks

noUser == "none"

noToken == 0

\* the state of a request that has none
noState == -1

idleRequest ==
    [pc |-> "idle", state |-> noState, userId |-> noUser, startedAt |-> 0,
     sent |-> FALSE, result |-> "none"]

InitOAuth ==
    /\ now = 0
    /\ stateStore = <<>>
    /\ issuedAt = <<>>
    /\ requests = [r \in RequestIds |-> idleRequest]
    /\ returned = [s \in StateIds |-> 0]
    /\ oauthTokens = [u \in Users |-> noToken]

\* stateStore.delete(state)
delete(store, state) == [s \in DOMAIN store \ {state} |-> store[s]]

\* stateStore.set(state, data)
set(store, state, data) ==
    [s \in DOMAIN store \cup {state} |-> IF s = state THEN data ELSE store[s]]

cleanupOldStates(store, time) ==
    [s \in {x \in DOMAIN store : ~(time - store[x].timestamp > maxAge)} |-> store[s]]

\* as stateExpired, but no age is too old
stateExpiredNever(stateAge) == FALSE

\* exchangeCodeForToken: stateAge > 10 * 60 * 1000
stateExpired(stateAge) == stateAge > maxAge

\* GET /api/westlaw/oauth/authorize: validateOAuthConfig, then
\* generateAuthorizationUrl(userId); randomBytes(32) is a state never seen before
GenerateAuthorizationUrl(userId) ==
    /\ configured
    /\ Len(issuedAt) < MaxIssued
    /\ LET state == Len(issuedAt) + 1
       IN  /\ stateStore' = cleanupOldStates(
                  set(stateStore, state, [userId |-> userId, timestamp |-> now]), now)
           /\ issuedAt' = Append(issuedAt, now)
    /\ UNCHANGED <<configured, now, requests, returned, oauthTokens>>
    /\ UNCHANGED redlineVars

\* the clock
Tick ==
    /\ now < MaxNow
    /\ now' = now + 1
    /\ UNCHANGED <<configured, stateStore, issuedAt, requests, returned, oauthTokens>>
    /\ UNCHANGED redlineVars

\* the requests are numbered in the order in which they arrive
arrives(r) ==
    /\ requests[r].pc = "idle"
    /\ \A earlier \in RequestIds : earlier < r => requests[earlier].pc # "idle"

finish(request, result) == [request EXCEPT !.pc = "done", !.result = result]

\* GET of the callback route with an error parameter, or without code or state
CallbackWithoutParams(r) ==
    /\ arrives(r)
    /\ \E result \in {"authorization error", "Missing authorization code or state"} :
          requests' = [requests EXCEPT ![r] = finish([@ EXCEPT !.startedAt = now], result)]
    /\ UNCHANGED <<configured, now, stateStore, issuedAt, returned, oauthTokens>>
    /\ UNCHANGED redlineVars

\* GET of the callback route with code and state: exchangeCodeForToken up to
\* the awaited axios.post, or up to the throw that the route catches
CallbackStart(r, state) ==
    /\ arrives(r)
    /\ state = forgedState \/ state \in DOMAIN issuedAt
    /\ LET request == [requests[r] EXCEPT !.state = state, !.startedAt = now]
       IN  IF state \notin DOMAIN stateStore
           THEN /\ requests' = [requests EXCEPT ![r] =
                       finish(request, "Invalid or expired state parameter")]
                /\ UNCHANGED stateStore
           ELSE IF stateExpired(now - stateStore[state].timestamp)
           THEN /\ stateStore' = delete(stateStore, state)
                /\ requests' = [requests EXCEPT ![r] =
                       finish(request, "State parameter expired")]
           ELSE IF ~configured
           THEN /\ requests' = [requests EXCEPT ![r] =
                       finish(request, "OAuth credentials not configured")]
                /\ UNCHANGED stateStore
           ELSE /\ requests' = [requests EXCEPT ![r] =
                       [request EXCEPT !.pc = "exchange", !.sent = TRUE,
                                       !.userId = stateStore[state].userId]]
                /\ UNCHANGED stateStore
    /\ UNCHANGED <<configured, now, issuedAt, returned, oauthTokens>>
    /\ UNCHANGED redlineVars

\* axios.post resolved: the used state is deleted and the token is returned
\* to the route, which awaits saveUserOAuthToken
TokenResponseOk(r) ==
    /\ requests[r].pc = "exchange"
    /\ stateStore' = delete(stateStore, requests[r].state)
    /\ returned' = [returned EXCEPT ![requests[r].state] = @ + 1]
    /\ requests' = [requests EXCEPT ![r].pc = "save"]
    /\ UNCHANGED <<configured, now, issuedAt, oauthTokens>>
    /\ UNCHANGED redlineVars

\* as TokenResponseFailed, but the catch deletes the state as well
TokenResponseFailedDeletes(r) ==
    /\ requests[r].pc = "exchange"
    /\ stateStore' = delete(stateStore, requests[r].state)
    /\ requests' = [requests EXCEPT ![r] =
           finish(@, "Failed to exchange authorization code for token")]
    /\ UNCHANGED <<configured, now, issuedAt, returned, oauthTokens>>
    /\ UNCHANGED redlineVars

\* axios.post rejected: the catch of exchangeCodeForToken throws again
TokenResponseFailed(r) ==
    /\ requests[r].pc = "exchange"
    /\ requests' = [requests EXCEPT ![r] =
           finish(@, "Failed to exchange authorization code for token")]
    /\ UNCHANGED <<configured, now, stateStore, issuedAt, returned, oauthTokens>>
    /\ UNCHANGED redlineVars

\* saveUserOAuthToken resolved: the route redirects to /?oauth=success
SaveOk(r) ==
    /\ requests[r].pc = "save"
    /\ oauthTokens' = [oauthTokens EXCEPT ![requests[r].userId] = r]
    /\ requests' = [requests EXCEPT ![r] = finish(@, "oauth=success")]
    /\ UNCHANGED <<configured, now, stateStore, issuedAt, returned>>
    /\ UNCHANGED redlineVars

\* saveUserOAuthToken rejected (the settings file cannot be written)
SaveFailed(r) ==
    /\ requests[r].pc = "save"
    /\ requests' = [requests EXCEPT ![r] = finish(@, "OAuth authentication failed")]
    /\ UNCHANGED <<configured, now, stateStore, issuedAt, returned, oauthTokens>>
    /\ UNCHANGED redlineVars

\* ---------------------------------------------------------------- actions
Init ==
    /\ originalText = <<>>
    /\ revisedText = <<>>
    /\ showEditor = FALSE
    /\ isLoading = FALSE
    /\ error = ""
    /\ fetching = FALSE
    /\ reading = FALSE
    /\ diff = <<>>
    /\ changes = <<>>
    /\ finalText = <<>>
    /\ effectPending = FALSE
    /\ exported = <<>>
    /\ lastOp = "init"
    /\ InitOAuth
    /\ configured = TRUE

editorVars == <<diff, changes, finalText, effectPending>>

\* RedlineEditor is rendered for the first time: its state is initialised
Mount(original, revised) ==
    /\ diff' \in diffWords(original, revised)
    /\ changes' = <<>>
    /\ finalText' = revised
    /\ effectPending' = TRUE

\* RedlineEditor leaves the tree: its state is dropped
Unmount ==
    /\ diff' = <<>>
    /\ changes' = <<>>
    /\ finalText' = <<>>
    /\ effectPending' = FALSE

\* RedlineEditor is rendered again with other props: its state is kept and
\* the effect on [originalText, revisedText] is due after the render
Rerender(original, revised) ==
    /\ diff' \in diffWords(original, revised)
    /\ effectPending' = TRUE
    /\ UNCHANGED <<changes, finalText>>

\* the <textarea> of the input view
SetOriginalText ==
    /\ ~showEditor
    /\ \E text \in OriginalTexts : originalText' = text
    /\ exported' = <<>>
    /\ lastOp' = "setOriginalText"
    /\ UNCHANGED oauthVars
    /\ UNCHANGED <<revisedText, showEditor, isLoading, error, fetching, reading>>
    /\ UNCHANGED editorVars

\* handleFileUpload up to its await
HandleFileUpload ==
    /\ ~showEditor
    /\ ~reading
    /\ error' = ""
    /\ reading' = TRUE
    /\ exported' = <<>>
    /\ lastOp' = "handleFileUpload"
    /\ UNCHANGED oauthVars
    /\ UNCHANGED <<originalText, revisedText, showEditor, isLoading, fetching>>
    /\ UNCHANGED editorVars

\* handleFileUpload after readFileContent resolved
FileRead ==
    /\ reading
    /\ reading' = FALSE
    /\ \E content \in OriginalTexts :
          /\ originalText' = content
          /\ IF showEditor /\ content # originalText
             THEN Rerender(content, revisedText)
             ELSE UNCHANGED editorVars
    /\ exported' = <<>>
    /\ lastOp' = "fileRead"
    /\ UNCHANGED oauthVars
    /\ UNCHANGED <<revisedText, showEditor, isLoading, error, fetching>>

\* handleFileUpload after readFileContent rejected
FileReadFailed ==
    /\ reading
    /\ reading' = FALSE
    /\ error' = "Failed to read file"
    /\ exported' = <<>>
    /\ lastOp' = "fileReadFailed"
    /\ UNCHANGED oauthVars
    /\ UNCHANGED <<originalText, revisedText, showEditor, isLoading, fetching>>
    /\ UNCHANGED editorVars

\* handleGenerateRedline up to its await; the button is disabled while
\* isLoading or while the text trims to nothing
HandleGenerateRedline ==
    /\ ~showEditor
    /\ ~isLoading
    /\ ~trimIsEmpty(originalText)
    /\ isLoading' = TRUE
    /\ error' = ""
    /\ fetching' = TRUE
    /\ exported' = <<>>
    /\ lastOp' = "handleGenerateRedline"
    /\ UNCHANGED oauthVars
    /\ UNCHANGED <<originalText, revisedText, showEditor, reading>>
    /\ UNCHANGED editorVars

\* handleGenerateRedline after an OK response
FetchOk ==
    /\ fetching
    /\ fetching' = FALSE
    /\ \E revised \in RevisedTexts :
          /\ revisedText' = revised
          /\ IF showEditor
             THEN IF revised # revisedText
                  THEN Rerender(originalText, revised)
                  ELSE UNCHANGED editorVars
             ELSE Mount(originalText, revised)
    /\ showEditor' = TRUE
    /\ isLoading' = FALSE
    /\ exported' = <<>>
    /\ lastOp' = "fetchOk"
    /\ UNCHANGED oauthVars
    /\ UNCHANGED <<originalText, error, reading>>

\* as FetchFailed, but the editor view is entered all the same
FetchFailedOpensEditor ==
    /\ fetching
    /\ fetching' = FALSE
    /\ error' = "Failed to generate redline"
    /\ isLoading' = FALSE
    /\ showEditor' = TRUE
    /\ IF showEditor THEN UNCHANGED editorVars ELSE Mount(originalText, revisedText)
    /\ exported' = <<>>
    /\ lastOp' = "fetchFailed"
    /\ UNCHANGED oauthVars
    /\ UNCHANGED <<originalText, revisedText, reading>>

\* handleGenerateRedline after a failed request or a response that is not OK
FetchFailed ==
    /\ fetching
    /\ fetching' = FALSE
    /\ error' = "Failed to generate redline"
    /\ isLoading' = FALSE
    /\ exported' = <<>>
    /\ lastOp' = "fetchFailed"
    /\ UNCHANGED oauthVars
    /\ UNCHANGED <<originalText, revisedText, showEditor, reading>>
    /\ UNCHANGED editorVars

\* "Back to Edit"
HandleReset ==
    /\ showEditor
    /\ showEditor' = FALSE
    /\ revisedText' = <<>>
    /\ error' = ""
    /\ Unmount
    /\ exported' = <<>>
    /\ lastOp' = "handleReset"
    /\ UNCHANGED oauthVars
    /\ UNCHANGED <<originalText, isLoading, fetching, reading>>

\* "New Document" of the editor view, "Clear All" of the input view
HandleNewDocument ==
    /\ showEditor' = FALSE
    /\ revisedText' = <<>>
    /\ originalText' = <<>>
    /\ error' = ""
    /\ Unmount
    /\ exported' = <<>>
    /\ lastOp' = "handleNewDocument"
    /\ UNCHANGED oauthVars
    /\ UNCHANGED <<isLoading, fetching, reading>>

\* useEffect(() => generateChanges(), [originalText, revisedText])
RunEffect ==
    /\ showEditor
    /\ effectPending
    /\ changes' = generateChanges(diff)
    /\ effectPending' = FALSE
    /\ exported' = <<>>
    /\ lastOp' = "generateChanges"
    /\ UNCHANGED oauthVars
    /\ UNCHANGED <<diff, finalText>>
    /\ UNCHANGED parentVars

\* a user event reaches a handler of the editor only after the due effect ran
editorIdle == showEditor /\ ~effectPending

\* as acceptClicked, but the shared control accepts the delete half only
acceptClickedOwnIdOnly(cs, element) == acceptChange(cs, changeId(element.key))

\* as acceptClicked, but the button of a deletion also accepts the first
\* addition that comes after it, whatever lies between the two
acceptClickedWithLaterAddition(cs, element) ==
    LET own == acceptChange(cs, changeId(element.key))
        later == {cs[k].id : k \in {j \in DOMAIN cs :
                      cs[j].id > element.key /\ cs[j].type = "addition"}}
    IN  IF element.kind \in {"deletion", "replacement"} /\ later # {}
        THEN acceptChange(own, CHOOSE id \in later : \A other \in later : id <= other)
        ELSE own

\* the accept button of the element with the given key
acceptClicked(cs, element) ==
    IF element.controls = "pair"
    THEN acceptChange(acceptChange(cs, changeId(element.key)), changeId(element.key + 1))
    ELSE acceptChange(cs, changeId(element.key))

\* the reject button of the element with the given key
rejectClicked(cs, element) ==
    IF element.controls = "pair"
    THEN rejectChange(rejectChange(cs, changeId(element.key)), changeId(element.key + 1))
    ELSE rejectChange(cs, changeId(element.key))

ClickAccept ==
    /\ editorIdle
    /\ LET elements == renderRedlineText(diff, changes)
       IN  \E k \in DOMAIN elements :
              /\ elements[k].controls # "none"
              /\ changes' = acceptClicked(changes, elements[k])
    /\ exported' = <<>>
    /\ lastOp' = "acceptChange"
    /\ UNCHANGED oauthVars
    /\ UNCHANGED <<diff, finalText, effectPending>>
    /\ UNCHANGED parentVars

ClickReject ==
    /\ editorIdle
    /\ LET elements == renderRedlineText(diff, changes)
       IN  \E k \in DOMAIN elements :
              /\ elements[k].controls # "none"
              /\ changes' = rejectClicked(changes, elements[k])
    /\ exported' = <<>>
    /\ lastOp' = "rejectChange"
    /\ UNCHANGED oauthVars
    /\ UNCHANGED <<diff, finalText, effectPending>>
    /\ UNCHANGED parentVars

AcceptAllChanges ==
    /\ editorIdle
    /\ changes' = acceptAll(changes)
    /\ finalText' = revisedText
    /\ exported' = <<>>
    /\ lastOp' = "acceptAllChanges"
    /\ UNCHANGED oauthVars
    /\ UNCHANGED <<diff, effectPending>>
    /\ UNCHANGED parentVars

RejectAllChanges ==
    /\ editorIdle
    /\ changes' = rejectAll(changes)
    /\ finalText' = originalText
    /\ exported' = <<>>
    /\ lastOp' = "rejectAllChanges"
    /\ UNCHANGED oauthVars
    /\ UNCHANGED <<diff, effectPending>>
    /\ UNCHANGED parentVars

\* as ExportFinalDocument, but the export also accepts every Change
ExportFinalDocumentAccepts ==
    /\ editorIdle
    /\ exported' = <<[text |-> exportFinalResult(diff, changes), filePrefix |-> "final"]>>
    /\ lastOp' = "exportFinalDocument"
    /\ UNCHANGED oauthVars
    /\ changes' = acceptAll(changes)
    /\ UNCHANGED <<diff, finalText, effectPending>>
    /\ UNCHANGED parentVars

ExportFinalDocument ==
    /\ editorIdle
    /\ exported' = <<[text |-> exportFinalResult(diff, changes), filePrefix |-> "final"]>>
    /\ lastOp' = "exportFinalDocument"
    /\ UNCHANGED oauthVars
    /\ UNCHANGED editorVars
    /\ UNCHANGED parentVars

ExportCurrentVersion ==
    /\ editorIdle
    /\ exported' = <<[text |-> exportCurrentResult(diff, changes), filePrefix |-> "custom"]>>
    /\ lastOp' = "exportCurrentVersion"
    /\ UNCHANGED oauthVars
    /\ UNCHANGED editorVars
    /\ UNCHANGED parentVars

Next ==
    \/ SetOriginalText
    \/ HandleFileUpload
    \/ FileRead
    \/ FileReadFailed
    \/ HandleGenerateRedline
    \/ FetchOk
    \/ FetchFailed
    \/ HandleReset
    \/ HandleNewDocument
    \/ RunEffect
    \/ ClickAccept
    \/ ClickReject
    \/ AcceptAllChanges
    \/ RejectAllChanges
    \/ ExportFinalDocument
    \/ ExportCurrentVersion

Spec == Init /\ [][Next]_vars

\* ------------------------------------------------- the handlers, called
\* acceptChange(id) and rejectChange(id) as functions of any id: the ids of
\* the Changes, the indexes of unchanged parts and an index past the diff
ChangeIds == 0..MaxSegs

knownId(cs, id) == \E k \in DOMAIN cs : cs[k].id = id

CallAcceptChange(id) ==
    /\ editorIdle
    /\ changes' = acceptChange(changes, id)
    /\ exported' = <<>>
    /\ lastOp' = IF knownId(changes, id) THEN "acceptChange" ELSE "acceptChangeNoMatch"
    /\ UNCHANGED oauthVars
    /\ UNCHANGED <<diff, finalText, effectPending>>
    /\ UNCHANGED parentVars

CallRejectChange(id) ==
    /\ editorIdle
    /\ changes' = rejectChange(changes, id)
    /\ exported' = <<>>
    /\ lastOp' = IF knownId(changes, id) THEN "rejectChange" ELSE "rejectChangeNoMatch"
    /\ UNCHANGED oauthVars
    /\ UNCHANGED <<diff, finalText, effectPending>>
    /\ UNCHANGED parentVars

\* the editor is opened on a pair of texts and the handlers are called
NextCalls ==
    \/ SetOriginalText
    \/ HandleGenerateRedline
    \/ FetchOk
    \/ RunEffect
    \/ \E id \in ChangeIds : CallAcceptChange(id)
    \/ \E id \in ChangeIds : CallRejectChange(id)
    \/ AcceptAllChanges
    \/ RejectAllChanges

SpecCalls == Init /\ [][NextCalls]_vars

\* --------------------------------------------------- the OAuth routes alone
InitWestlaw ==
    /\ originalText = <<>>
    /\ revisedText = <<>>
    /\ showEditor = FALSE
    /\ isLoading = FALSE
    /\ error = ""
    /\ fetching = FALSE
    /\ reading = FALSE
    /\ diff = <<>>
    /\ changes = <<>>
    /\ finalText = <<>>
    /\ effectPending = FALSE
    /\ exported = <<>>
    /\ lastOp = "init"
    /\ InitOAuth
    /\ configured \in BOOLEAN

NextWestlaw ==
    \/ \E userId \in Users : GenerateAuthorizationUrl(userId)
    \/ Tick
    \/ \E r \in RequestIds : CallbackWithoutParams(r)
    \/ \E r \in RequestIds : \E state \in {forgedState} \cup StateIds :
          CallbackStart(r, state)
    \/ \E r \in RequestIds : TokenResponseOk(r)
    \/ \E r \in RequestIds : TokenResponseFailed(r)
    \/ \E r \in RequestIds : SaveOk(r)
    \/ \E r \in RequestIds : SaveFailed(r)

SpecWestlaw == InitWestlaw /\ [][NextWestlaw]_vars

TypeOK ==
    /\ originalText \in OriginalTexts
    /\ revisedText \in RevisedTexts
    /\ showEditor \in BOOLEAN
    /\ effectPending \in BOOLEAN
    /\ Len(diff) <= MaxSegs
    /\ Len(changes) <= MaxSegs

\* ------------------------------------------------------------ vocabulary
\* the decision of the Change of the segment with the given 0-based index
decisionOf(index) ==
    LET change == find(changes, changeId(index))
    IN  IF truthy(change.accepted) THEN "Accepted"
        ELSE IF truthy(change.rejected) THEN "Rejected"
        ELSE "Pending"

changedSegments == {k \in DOMAIN diff : diff[k].kind # "equal"}

\* the 1-based positions of the delete halves of the Replacements
replacements ==
    {k \in DOMAIN diff :
        k < Len(diff) /\ diff[k].kind = "removed" /\ diff[k + 1].kind = "added"}

allDecided(decision) == \A k \in changedSegments : decisionOf(k - 1) = decision

exportedBy(op) == lastOp = op /\ Len(exported) = 1

Decisions == {"Pending", "Accepted", "Rejected"}

\* the text of the segments that a policy keeps; a policy maps the kind of a
\* changed segment and the decision of its Change to "keep the text"
projection(keep) ==
    join([k \in DOMAIN diff |->
        IF diff[k].kind = "equal" THEN diff[k].value
        ELSE IF keep[diff[k].kind, decisionOf(k - 1)] THEN diff[k].value
        ELSE <<>>])

stats == getChangeStats(changes)

\* ---------------------------------------------------------------- claims

\* C1: when every Change is Accepted, the text that exportFinalDocument
\* exports is the revised text.
C1_AcceptAllRoundTrip ==
    (exportedBy("exportFinalDocument") /\ allDecided("Accepted"))
        => exported[1].text = revisedText

\* C2: when every Change is Rejected, the text that exportFinalDocument
\* exports is the original text.
C2_RejectAllRoundTrip ==
    (exportedBy("exportFinalDocument") /\ allDecided("Rejected"))
        => exported[1].text = originalText

keepFinal ==
    [kind \in {"added", "removed"}, decision \in Decisions |->
        IF kind = "added" THEN decision # "Rejected" ELSE decision # "Accepted"]

keepCurrent ==
    [kind \in {"added", "removed"}, decision \in Decisions |->
        IF kind = "added" THEN decision # "Rejected" ELSE decision = "Rejected"]

keepOnlyAccepted ==
    [kind \in {"added", "removed"}, decision \in Decisions |->
        IF kind = "added" THEN decision = "Accepted" ELSE decision # "Accepted"]

C6_OnlyAcceptedExported ==
    exportedBy("exportFinalDocument") => exported[1].text = projection(keepOnlyAccepted)

\* C7: accepted + rejected + pending is the number of Changes.
C7_StatsConsistency ==
    showEditor => stats.accepted + stats.rejected + stats.pending = Len(changes)

\* one Change was accepted and another one rejected
C7_Witness ==
    /\ editorIdle
    /\ lastOp \in {"acceptChange", "rejectChange"}
    /\ stats.accepted = 1
    /\ stats.rejected = 1

\* C8 as claimed: a Replacement is one Change that carries both texts, and
\* its Inserted segment has no Change of its own.
C8_OneChangePerReplacement ==
    editorIdle =>
        \A k \in replacements :
            /\ \E j \in DOMAIN changes :
                  /\ changes[j].id = changeId(k - 1)
                  /\ changes[j].original = diff[k].value
                  /\ changes[j].revised = diff[k + 1].value
            /\ \A j \in DOMAIN changes : changes[j].id # changeId(k)

\* C8 as amended: a Replacement is two Changes, a deletion that carries the
\* deleted text under the id of the Deleted segment and an addition that
\* carries the inserted text under the id of the Inserted segment; there is
\* one Change per segment that is not equal, and none is a modification.
C8_TwoChangesPerReplacement ==
    editorIdle =>
        /\ Len(changes) = Cardinality(changedSegments)
        /\ \A j \in DOMAIN changes : changes[j].type \in {"addition", "deletion"}
        /\ \A k \in replacements :
              \E j \in DOMAIN changes :
                  /\ j < Len(changes)
                  /\ changes[j].id = changeId(k - 1)
                  /\ changes[j].type = "deletion"
                  /\ changes[j].original = diff[k].value
                  /\ changes[j].revised = <<>>
                  /\ changes[j + 1].id = changeId(k)
                  /\ changes[j + 1].type = "addition"
                  /\ changes[j + 1].original = <<>>
                  /\ changes[j + 1].revised = diff[k + 1].value

C8_Witness ==
    /\ editorIdle
    /\ lastOp = "generateChanges"
    /\ replacements # {}
    /\ Len(diff) = 3
    /\ Len(changes) = 2

\* C9: right after acceptAll every Change is Accepted, right after
\* rejectAll every Change is Rejected.
C9_AcceptAllRejectAll ==
    /\ lastOp = "acceptAllChanges" =>
          stats.accepted = Len(changes) /\ stats.rejected = 0 /\ stats.pending = 0
    /\ lastOp = "rejectAllChanges" =>
          stats.rejected = Len(changes) /\ stats.accepted = 0 /\ stats.pending = 0

C9_Witness ==
    /\ lastOp = "rejectAllChanges"
    /\ finalText = originalText
    /\ Len(changes) = 2
    /\ stats.rejected = 2

\* C10: a render of a new (original, revised) pair never uses a decision
\* that was made against the pair before it.
C10_NoStaleDecision ==
    (showEditor /\ effectPending) => stats.accepted = 0 /\ stats.rejected = 0

\* C11: acceptChange(id) or rejectChange(id) with an id that matches no Change
\* is a no-op: the call is possible (it throws nothing), and the Changes with
\* their decisions, the statistics and both export texts are as before.
C11_UnknownIdNoOp ==
    /\ [][\A id \in ChangeIds :
            ((CallAcceptChange(id) \/ CallRejectChange(id)) /\ ~knownId(changes, id))
                => /\ changes' = changes
                   /\ getChangeStats(changes') = getChangeStats(changes)
                   /\ exportFinalResult(diff', changes') = exportFinalResult(diff, changes)
                   /\ exportCurrentResult(diff', changes') = exportCurrentResult(diff, changes)
                   /\ renderRedlineText(diff', changes') = renderRedlineText(diff, changes)]_vars
    /\ [](editorIdle => \A id \in ChangeIds :
                            ENABLED CallAcceptChange(id) /\ ENABLED CallRejectChange(id))

\* a call with an id that matches nothing was made on decided Changes
C11_Witness ==
    /\ lastOp \in {"acceptChangeNoMatch", "rejectChangeNoMatch"}
    /\ \E k \in DOMAIN changes : truthy(changes[k].accepted)
    /\ \E k \in DOMAIN changes : truthy(changes[k].rejected)

oneAddition ==
    /\ Len(changes) = 1
    /\ changes[1].type = "addition"
    /\ changes[1].original = <<>>
    /\ changes[1].revised = revisedText

\* the Changes of an editor whose revised text is empty and whose original
\* text is not: one deletion that spans the original text
oneDeletion ==
    /\ Len(changes) = 1
    /\ changes[1].type = "deletion"
    /\ changes[1].original = originalText
    /\ changes[1].revised = <<>>

isText(text) == \A k \in DOMAIN text : text[k] \in Words

\* what C13 says of the editor: the Change sets of the two empty inputs, the
\* reject-all text of an empty original, and both exports give a text
emptyInputsInEditor ==
    /\ (editorIdle /\ originalText = <<>> /\ revisedText # <<>>) =>
           /\ oneAddition
           /\ ENABLED ExportFinalDocument /\ ENABLED ExportCurrentVersion
           /\ isText(exportFinalResult(diff, changes))
           /\ isText(exportCurrentResult(diff, changes))
           /\ allDecided("Rejected") => /\ exportFinalResult(diff, changes) = <<>>
                                        /\ exportCurrentResult(diff, changes) = <<>>
           /\ lastOp = "rejectAllChanges" => finalText = <<>>
    /\ (editorIdle /\ revisedText = <<>> /\ originalText # <<>>) =>
           /\ oneDeletion
           /\ ENABLED ExportFinalDocument /\ ENABLED ExportCurrentVersion
           /\ isText(exportFinalResult(diff, changes))
           /\ isText(exportCurrentResult(diff, changes))

inputView == ~showEditor /\ ~isLoading

\* C13 (as claimed): empty inputs are valid. An empty original with a revised
\* text gives one Addition of the whole revised text and the reject-all text
\* "", an empty revised text gives one Deletion of the whole original, both
\* exports give a string, and the redline flow reaches the engine: the
\* request for a redline can be made on an empty original text.
C13_EmptyInputsReachEngine ==
    /\ emptyInputsInEditor
    /\ (inputView /\ originalText = <<>>) => ENABLED HandleGenerateRedline

\* C13 (amended): the same of an editor that is open on such a pair, but
\* handleGenerateRedline makes no request for an original text that is empty
\* or white space only.
C13_EmptyInputsInEditor ==
    /\ emptyInputsInEditor
    /\ (inputView /\ isWhitespace(originalText)) => ~ENABLED HandleGenerateRedline
    /\ (inputView /\ ~isWhitespace(originalText)) => ENABLED HandleGenerateRedline

\* the final document was exported with the one Addition of an empty original
\* rejected
C13_Witness ==
    /\ exportedBy("exportFinalDocument")
    /\ originalText = <<>>
    /\ revisedText # <<>>
    /\ oneAddition
    /\ allDecided("Rejected")
    /\ exported[1].text = <<>>

\* the rendering holds the text of the removed part at position k
originalShown(k) ==
    \E e \in DOMAIN renderRedlineText(diff, changes) :
        LET element == renderRedlineText(diff, changes)[e]
        IN  /\ element.key = k - 1
            /\ element.kind \in {"deletion", "replacement"}
            /\ element.original = diff[k].value

\* the rendering holds the text of the added part at position k, on its own
\* or as the insert half of the Replacement that starts at k - 1
revisedShown(k) ==
    \E e \in DOMAIN renderRedlineText(diff, changes) :
        LET element == renderRedlineText(diff, changes)[e]
        IN  /\ element.revised = diff[k].value
            /\ \/ element.key = k - 1 /\ element.kind = "addition"
               \/ element.key = k - 2 /\ element.kind = "replacement"

\* C14: in every decision state the rendering holds the original fragment of
\* a Change if and only if the Change is not Accepted and its revised fragment
\* if and only if it is not Rejected, both halves of a Replacement included.
C14_RenderVisibility ==
    editorIdle =>
        \A k \in changedSegments :
            /\ diff[k].kind = "removed" =>
                   (originalShown(k) <=> decisionOf(k - 1) # "Accepted")
            /\ diff[k].kind = "added" =>
                   (revisedShown(k) <=> decisionOf(k - 1) # "Rejected")

\* a list of Changes without the decisions
withoutDecisions(cs) ==
    [k \in DOMAIN cs |->
        [id |-> cs[k].id, type |-> cs[k].type, original |-> cs[k].original,
         revised |-> cs[k].revised, lineNumber |-> cs[k].lineNumber]]

decisionOps == {"acceptChange", "rejectChange", "acceptAllChanges", "rejectAllChanges"}

\* C17: acceptChange, rejectChange, acceptAllChanges and rejectAllChanges leave
\* the list of Changes as it is but for the decisions (same length, same
\* order, and per Change the same id, type, texts and lineNumber), so that
\* after any sequence of them the list is the one that was computed.
C17_DecisionsKeepChangeSet ==
    /\ [][lastOp' \in decisionOps =>
              withoutDecisions(changes') = withoutDecisions(changes)]_vars
    /\ [](editorIdle =>
              withoutDecisions(changes) = withoutDecisions(generateChanges(diff)))

\* a Change was rejected in a list of two Changes, the other one accepted
C17_Witness ==
    /\ lastOp = "rejectChange"
    /\ Len(changes) >= 2
    /\ \E k \in DOMAIN changes : truthy(changes[k].accepted)
    /\ \E k \in DOMAIN changes : truthy(changes[k].rejected)

\* the elements of the rendering
rendered == renderRedlineText(diff, changes)

renderedElements == {rendered[e] : e \in DOMAIN rendered}

\* C18: a Replacement is rendered as one element that holds the removed text
\* and the added text and has at most one pair of buttons; no element, and so
\* no button, stands for the insert half alone in any decision state; and the
\* pair of buttons sets the same decision on both halves.
C18_ReplacementOneUnit ==
    editorIdle =>
        \A k \in replacements :
            /\ \A element \in renderedElements : element.key # k
            /\ \A element \in renderedElements :
                   element.key = k - 1 =>
                       /\ element.kind = "replacement"
                       /\ element.original = diff[k].value
                       /\ element.revised = diff[k + 1].value
                       /\ element.controls \in {"pair", "none"}
                       /\ element.controls = "pair" =>
                              LET accepted == acceptClicked(changes, element)
                                  rejected == rejectClicked(changes, element)
                              IN  /\ truthy(find(accepted, changeId(k - 1)).accepted)
                                  /\ truthy(find(accepted, changeId(k)).accepted)
                                  /\ truthy(find(rejected, changeId(k - 1)).rejected)
                                  /\ truthy(find(rejected, changeId(k)).rejected)
            /\ decisionOf(k - 1) # "Accepted" =>
                   \E element \in renderedElements : element.key = k - 1
            /\ decisionOf(k - 1) = "Pending" =>
                   \E element \in renderedElements :
                       element.key = k - 1 /\ element.controls = "pair"

\* a Replacement was rejected with its pair of buttons and is rendered
C18_Witness ==
    /\ editorIdle
    /\ lastOp = "rejectChange"
    /\ \E k \in replacements :
           /\ decisionOf(k - 1) = "Rejected"
           /\ decisionOf(k) = "Rejected"
           /\ \E element \in renderedElements :
                  element.key = k - 1 /\ element.kind = "replacement"

exportOps == {"exportFinalDocument", "exportCurrentVersion"}

\* C19: exportFinalDocument and exportCurrentVersion leave the parts, the
\* Changes and their decisions as they are, the text that either hands over
\* is the text of the parts and decisions that are there after the call, and
\* the same export called again hands over the same text.
C19_ExportsPure ==
    /\ [][lastOp' \in exportOps =>
              /\ changes' = changes
              /\ diff' = diff
              /\ finalText' = finalText
              /\ originalText' = originalText
              /\ revisedText' = revisedText]_vars
    /\ [][(lastOp \in exportOps /\ lastOp' = lastOp) => exported' = exported]_vars
    /\ [](exportedBy("exportFinalDocument") =>
              exported[1].text = exportFinalResult(diff, changes))
    /\ [](exportedBy("exportCurrentVersion") =>
              exported[1].text = exportCurrentResult(diff, changes))

\* the final document was exported while one Change was pending and another
\* one decided
C19_Witness ==
    /\ exportedBy("exportFinalDocument")
    /\ \E k \in changedSegments : decisionOf(k - 1) = "Pending"
    /\ \E k \in changedSegments : decisionOf(k - 1) # "Pending"

\* the changed parts that belong to no Replacement
unpaired == {k \in changedSegments : k \notin replacements /\ (k - 1) \notin replacements}

\* two lists of Changes differ at most in the Change with the given id
sameButFor(cs, other, id) ==
    /\ DOMAIN cs = DOMAIN other
    /\ \A k \in DOMAIN cs : cs[k].id # id => other[k] = cs[k]

\* an added part right before a removed part: diffWords puts the removed part
\* first, so the two functions are applied to this list of parts directly
insertedThenDeleted ==
    <<[kind |-> "added", value |-> <<"w">>], [kind |-> "removed", value |-> <<"w">>]>>

separateWhenInsertedFirst ==
    LET cs == generateChanges(insertedThenDeleted)
        elements == renderRedlineText(insertedThenDeleted, cs)
    IN  /\ Len(cs) = 2
        /\ cs[1].type = "addition" /\ cs[2].type = "deletion"
        /\ Len(elements) = 2
        /\ elements[1].kind = "addition" /\ elements[1].controls = "single"
        /\ elements[2].kind = "deletion" /\ elements[2].controls = "single"
        /\ sameButFor(cs, acceptClicked(cs, elements[1]), changeId(0))
        /\ sameButFor(cs, rejectClicked(cs, elements[2]), changeId(1))

\* C20: an element is a Replacement only where an added part comes right
\* after a removed part. Every other added or removed part (a removed part
\* before an unchanged part, an added part after one, an added part before a
\* removed part) has a Change of its own and an element of its own whose
\* buttons decide that Change and no other.
C20_PairingOnlyWhenAdjacent ==
    /\ separateWhenInsertedFirst
    /\ editorIdle =>
        /\ \A element \in renderedElements :
               element.kind = "replacement" => (element.key + 1) \in replacements
        /\ \A k \in unpaired :
               /\ \E c \in DOMAIN changes :
                      /\ changes[c].id = changeId(k - 1)
                      /\ changes[c].type =
                             IF diff[k].kind = "added" THEN "addition" ELSE "deletion"
               /\ \A element \in renderedElements :
                      element.key = k - 1 =>
                          /\ element.kind =
                                 IF diff[k].kind = "added" THEN "addition" ELSE "deletion"
                          /\ element.controls \in {"single", "none"}
                          /\ sameButFor(changes, acceptClicked(changes, element),
                                        changeId(k - 1))
                          /\ sameButFor(changes, rejectClicked(changes, element),
                                        changeId(k - 1))
               /\ decisionOf(k - 1) = "Pending" =>
                      \E element \in renderedElements :
                          element.key = k - 1 /\ element.controls = "single"

\* a removed part, an unchanged part and an added part: the deletion was
\* accepted and the addition rejected
C20_Witness ==
    /\ editorIdle
    /\ Len(diff) = 3
    /\ diff[1].kind = "removed" /\ diff[2].kind = "equal" /\ diff[3].kind = "added"
    /\ Len(changes) = 2
    /\ decisionOf(0) = "Accepted"
    /\ decisionOf(2) = "Rejected"

\* the states that generateAuthorizationUrl has returned
issued == DOMAIN issuedAt

\* C15: for every state that generateAuthorizationUrl returned, at most one
\* call of exchangeCodeForToken with that state returns a token, also when
\* two requests of the callback route carry the same state and both are past
\* the check of the state before either token request is answered.
C15_StateSingleUse == \A state \in issued : returned[state] <= 1

\* the request carried a state that was never issued, or one that was issued
\* more than ten minutes before the request
staleOrForged(request) ==
    /\ request.state # noState
    /\ \/ request.state \notin issued
       \/ request.startedAt - issuedAt[request.state] > maxAge

stateErrors == {"Invalid or expired state parameter", "State parameter expired"}

\* C16: a request of the callback route whose state was never issued, or was
\* issued more than ten minutes earlier, ends in exchangeCodeForToken before a
\* token request is sent: the route redirects with the error, no token is
\* returned or saved for any user, and the state is not in the state store.
C16_StateValidated ==
    /\ [](\A r \in RequestIds :
             (requests[r].pc # "idle" /\ staleOrForged(requests[r])) =>
                 /\ requests[r].pc = "done"
                 /\ ~requests[r].sent
                 /\ requests[r].result \in stateErrors
                 /\ requests[r].state \notin DOMAIN stateStore
                 /\ \A u \in Users : oauthTokens[u] # r)
    /\ [][\A r \in RequestIds :
             (requests[r].pc = "idle" /\ requests'[r].pc # "idle"
                  /\ staleOrForged(requests'[r])) =>
                 /\ oauthTokens' = oauthTokens
                 /\ returned' = returned]_vars

\* a request with an expired state that was still in the store has ended
C16_Witness ==
    \E r \in RequestIds :
        /\ requests[r].result = "State parameter expired"
        /\ requests[r].state \in issued
        /\ requests[r].state \notin DOMAIN stateStore
        /\ ~requests[r].sent

\* the line breaks of the first n parts of the diff
RECURSIVE newlinesIn(_, _)
newlinesIn(d, n) ==
    IF n = 0 THEN 0 ELSE newlinesIn(d, n - 1) + countNewlines(d[n].value)

\* C21: the lineNumber of every Change is 1 plus the line breaks of all the
\* parts, of whatever kind, before the part of the Change; so it is at least
\* 1 and does not decrease along the list of Changes.
C21_LineNumbers ==
    editorIdle =>
        /\ \A k \in DOMAIN changes :
               /\ changes[k].lineNumber = 1 + newlinesIn(diff, changes[k].id)
               /\ changes[k].lineNumber >= 1
        /\ \A k \in DOMAIN changes :
               k > 1 => changes[k - 1].lineNumber <= changes[k].lineNumber

\* a Change on line 2 or later that has a changed part with a line break
\* before it
C21_Witness ==
    /\ editorIdle
    /\ \E k \in DOMAIN changes :
           /\ changes[k].lineNumber >= 2
           /\ \E j \in changedSegments :
                  j <= changes[k].id /\ countNewlines(diff[j].value) >= 1

idsOf(cs) == [k \in DOMAIN cs |-> cs[k].id]

\* C22: no two Changes of the list share an id; the id of a Change is the
\* index of its part in the diff, so the Changes computed again from the same
\* pair of texts have the same ids; and the lookup by the id of a part finds
\* the one Change of that part, and none for an unchanged part.
C22_IdsUnambiguous ==
    /\ \A j, k \in DOMAIN changes : j # k => changes[j].id # changes[k].id
    /\ editorIdle =>
           /\ {changes[k].id : k \in DOMAIN changes} =
                  {changeId(k - 1) : k \in changedSegments}
           /\ idsOf(generateChanges(diff)) = idsOf(changes)
           /\ \A k \in DOMAIN changes :
                  LET part == diff[changes[k].id + 1]
                  IN  /\ part.kind = "added" =>
                             changes[k].type = "addition" /\ changes[k].revised = part.value
                      /\ part.kind = "removed" =>
                             changes[k].type = "deletion" /\ changes[k].original = part.value
           /\ \A k \in DOMAIN diff :
                  /\ Cardinality({c \in DOMAIN changes : changes[c].id = changeId(k - 1)})
                         = IF k \in changedSegments THEN 1 ELSE 0
                  /\ find(changes, changeId(k - 1)).id =
                         IF k \in changedSegments THEN changeId(k - 1) ELSE undefinedChange.id

\* two Changes after an unchanged part, one of them decided
C22_Witness ==
    /\ editorIdle
    /\ Len(diff) >= 3
    /\ diff[1].kind = "equal"
    /\ Len(changes) = 2
    /\ decisionOf(2) # "Pending"

\* the decision of the Change with the given id in a list of Changes
decisionIn(cs, id) ==
    LET change == find(cs, id)
    IN  IF truthy(change.accepted) /\ truthy(change.rejected) THEN "Both"
        ELSE IF truthy(change.accepted) THEN "Accepted"
        ELSE IF truthy(change.rejected) THEN "Rejected"
        ELSE "Pending"

\* C23: after any sequence of acceptChange(id), rejectChange(id),
\* acceptAllChanges and rejectAllChanges no Change has accepted and rejected
\* both set, and the last of them that was applied to a Change gives its
\* decision, whatever the decision was before.
C23_FlagsExclusive ==
    /\ [](\A k \in DOMAIN changes :
             ~(truthy(changes[k].accepted) /\ truthy(changes[k].rejected)))
    /\ [][\A id \in ChangeIds : knownId(changes, id) =>
             /\ CallAcceptChange(id) => decisionIn(changes', id) = "Accepted"
             /\ CallRejectChange(id) => decisionIn(changes', id) = "Rejected"
             /\ AcceptAllChanges => decisionIn(changes', id) = "Accepted"
             /\ RejectAllChanges => decisionIn(changes', id) = "Rejected"]_vars

\* acceptChange has accepted a Change, next to a rejected one
C23_Witness ==
    /\ lastOp = "acceptChange"
    /\ \E k \in DOMAIN changes :
           changes[k].accepted = "true" /\ changes[k].rejected = "false"
    /\ \E k \in DOMAIN changes :
           changes[k].rejected = "true" /\ changes[k].accepted = "false"

decided(change) == truthy(change.accepted) \/ truthy(change.rejected)

\* C24: no step but the computation of the Changes by the effect makes a
\* decided Change pending; so a Change that acceptChange, rejectChange,
\* acceptAllChanges or rejectAllChanges decided stays decided under any
\* sequence of the four, and the pending count of the statistics never grows.
C24_NoReturnToPending ==
    [][lastOp' # "generateChanges" =>
          /\ \A k \in DOMAIN changes :
                 decided(changes[k]) => k \in DOMAIN changes' /\ decided(changes'[k])
          /\ getChangeStats(changes').pending <= getChangeStats(changes).pending]_vars

\* every Change of two is decided, one of them accepted and one rejected
C24_Witness ==
    /\ editorIdle
    /\ lastOp \in {"acceptChange", "rejectChange"}
    /\ Len(changes) = 2
    /\ stats.pending = 0
    /\ stats.accepted = 1
    /\ stats.rejected = 1

\* C25: the rendering has buttons only on elements whose Change is Pending
\* (both Changes, for a Replacement); so a click on a button never changes a
\* Change that is decided, and only acceptAllChanges, rejectAllChanges or a
\* new computation of the Changes can.
C25_ControlsOnlyWhilePending ==
    /\ [](editorIdle =>
             \A element \in renderedElements :
                 element.controls # "none" =>
                     /\ decisionOf(element.key) = "Pending"
                     /\ element.controls = "pair" =>
                            decisionOf(element.key + 1) = "Pending")
    /\ [][lastOp' \in {"acceptChange", "rejectChange"} =>
             \A k \in DOMAIN changes :
                 decided(changes[k]) => k \in DOMAIN changes' /\ changes'[k] = changes[k]]_vars

\* a rejected deletion is rendered, without buttons, next to a pending Change
\* that was not clicked
C25_Witness ==
    /\ editorIdle
    /\ lastOp = "rejectChange"
    /\ \E element \in renderedElements :
           /\ element.kind = "deletion"
           /\ decisionOf(element.key) = "Rejected"
           /\ element.controls = "none"
    /\ stats.pending >= 1

\* the text fragments of the rendering, in order: the text of an unchanged
\* part, the original then the revised fragment of a Change that is displayed
shownText ==
    join([e \in DOMAIN rendered |->
        IF rendered[e].kind = "equal" THEN rendered[e].original
        ELSE rendered[e].original \o rendered[e].revised])

\* C26: when no Change is Pending, the text fragments of the rendering,
\* joined in order, are the string that exportFinalDocument exports for the
\* same decisions.
C26_ViewAgreesWithExport ==
    (editorIdle /\ stats.pending = 0) => shownText = exportFinalResult(diff, changes)

\* C27: exportCurrentVersion and exportFinalDocument export the same string
\* whenever no removed part has a Pending Change; and when every Change is
\* Pending, exportCurrentVersion exports the revised text and
\* exportFinalDocument the values of all the parts, joined.
C27_ExportPolicies ==
    editorIdle =>
        /\ (\A k \in changedSegments :
                diff[k].kind = "removed" => decisionOf(k - 1) # "Pending")
               => exportCurrentResult(diff, changes) = exportFinalResult(diff, changes)
        /\ allDecided("Pending") =>
               /\ exportCurrentResult(diff, changes) = revisedText
               /\ exportFinalResult(diff, changes) = join([k \in DOMAIN diff |-> diff[k].value])

\* C28: acceptChange(id) and rejectChange(id) leave every Change with another
\* id as it is, and two of these calls on different ids give the same list of
\* Changes in either order.
C28_DecisionsLocal ==
    /\ [][\A id \in ChangeIds :
            (CallAcceptChange(id) \/ CallRejectChange(id))
                => sameButFor(changes, changes', id)]_vars
    /\ [](\A a, b \in ChangeIds : a # b =>
            /\ acceptChange(acceptChange(changes, a), b) = acceptChange(acceptChange(changes, b), a)
            /\ rejectChange(rejectChange(changes, a), b) = rejectChange(rejectChange(changes, b), a)
            /\ rejectChange(acceptChange(changes, a), b) = acceptChange(rejectChange(changes, b), a))

\* rejectChange has rejected one Change of a list in which another Change is
\* still pending
C28_Witness ==
    /\ lastOp = "rejectChange"
    /\ \E j, k \in DOMAIN changes :
           /\ changes[j].id # changes[k].id
           /\ decisionIn(changes, changes[j].id) = "Rejected"
           /\ decisionIn(changes, changes[k].id) = "Pending"

exchangeFailed == "Failed to exchange authorization code for token"

\* a request with this state has ended with a failed token request
failedWith(state) ==
    \E q \in RequestIds : requests[q].state = state /\ requests[q].result = exchangeFailed

\* C29: a token request that fails leaves the state store as it is; a request
\* that comes with the same state afterwards, within ten minutes of the
\* issuance and with no token returned for the state, passes the check of the
\* state; and a state leaves the store only when a token request with it
\* succeeds, when a request comes with it after its expiry, or when
\* generateAuthorizationUrl cleans up the states older than ten minutes.
C29_FailedExchangeKeepsState ==
    /\ [][\A r \in RequestIds : TokenResponseFailed(r) => stateStore' = stateStore]_vars
    /\ [][\A r \in RequestIds : \A state \in StateIds :
            (/\ CallbackStart(r, state)
             /\ failedWith(state)
             /\ returned[state] = 0
             /\ now - issuedAt[state] <= maxAge)
                => requests'[r].pc = "exchange"]_vars
    /\ [][\A state \in DOMAIN stateStore :
            state \notin DOMAIN stateStore' =>
                \/ \E r \in RequestIds : TokenResponseOk(r) /\ requests[r].state = state
                \/ /\ \E r \in RequestIds : CallbackStart(r, state)
                   /\ now - stateStore[state].timestamp > maxAge
                \/ /\ \E userId \in Users : GenerateAuthorizationUrl(userId)
                   /\ now - stateStore[state].timestamp > maxAge]_vars

\* a token request has failed, the state is still in the store, and a request
\* that came later with the same state is past the check of the state
C29_Witness ==
    \E q, r \in RequestIds :
        /\ requests[q].result = exchangeFailed
        /\ requests[r].state = requests[q].state
        /\ requests[r].startedAt > requests[q].startedAt
        /\ requests[r].pc = "exchange"
        /\ requests[q].state \in DOMAIN stateStore
        /\ returned[requests[q].state] = 0

\* C30: showEditor becomes true only in the step in which an OK response of
\* /api/redline sets revisedText; a request is sent only for an original text
\* that does not trim to nothing; a failed request leaves showEditor and
\* revisedText as they are and sets an error that is not empty; and isLoading
\* is true only while a request is in flight, so it is false after the answer.
C30_EditorOnlyAfterSuccess ==
    /\ [][(~showEditor /\ showEditor') =>
              /\ lastOp' = "fetchOk"
              /\ fetching /\ ~fetching'
              /\ revisedText' \in RevisedTexts]_vars
    /\ [][(~fetching /\ fetching') => ~isWhitespace(originalText)]_vars
    /\ [][lastOp' = "fetchFailed" =>
              /\ showEditor' = showEditor
              /\ revisedText' = revisedText
              /\ error' # ""]_vars
    /\ [][lastOp' \in {"fetchOk", "fetchFailed"} => ~isLoading']_vars
    /\ [](isLoading <=> fetching)

\* a request has failed: the input view is still there, with the error
C30_Witness ==
    /\ lastOp = "fetchFailed"
    /\ ~showEditor
    /\ ~isLoading
    /\ error # ""
    /\ revisedText = <<>>
    /\ ~isWhitespace(originalText)

====
